---- MODULE Spec2Model ----
(***************************************************************************)
(* A model of src/main.cpp: the text codec (split_at, stoi/stof, the       *)
(* stream output of fields), ReferenceQueryEngine::loadTablesFromCSV, one  *)
(* loop iteration per step, ReferenceQueryEngine::exe, one instrument      *)
(* check per step, DenseTable::print, and the driver's load/query loop.    *)
(*                                                                         *)
(* Strings are sequences of one-character strings, so that splitting,      *)
(* number parsing, number printing and the ordering of std::map<string>    *)
(* are computed character by character.  A float is the integer number of  *)
(* tenths it stands for (2990 is 299.0f); every float of the vocabulary    *)
(* has at most one fractional digit and fewer than seven significant       *)
(* digits, the range in which the default stream precision prints exactly. *)
(***************************************************************************)
EXTENDS Integers, Sequences, FiniteSets, TLC

\* ------------------------------------------------------------------ bounds

\* Lines of a fed document.
MaxLines == 7

\* <TABLE> blocks of a whole document.
MaxBlocks == 3

\* Entries (day, value) over all series of a store drawn for the query alone.
MaxEntries == 2

\* Trade records over all instruments of a store drawn for the query alone.
MaxTrades == 2

\* exe() calls of the driver's timing loop that are followed.
MaxRuns == 2

\* Columns of a table that is printed and loaded again.
MaxCols == 2

\* ------------------------------------------------------------ enumerations

TRADABLE == "TRADABLE"
PRICE_OVER_TIME == "PRICE_OVER_TIME"
VOLUME_OVER_TIME == "VOLUME_OVER_TIME"
TRADES == "TRADES"

\* Any value of the int cur_table_flag that is none of the four enumerators.
NO_TABLE_FLAG == "NO_TABLE_FLAG"

TableFlags == {TRADABLE, PRICE_OVER_TIME, VOLUME_OVER_TIME, TRADES, NO_TABLE_FLAG}

FIELD_TYPE_INT == "FIELD_TYPE_INT"
FIELD_TYPE_FLOAT == "FIELD_TYPE_FLOAT"
FIELD_TYPE_STRING == "FIELD_TYPE_STRING"

\* ------------------------------------------------------------ strings

S_TABLE == <<"<", "T", "A", "B", "L", "E", ">">>
S_tradable == <<"t", "r", "a", "d", "a", "b", "l", "e">>
S_price_over_time == <<"p", "r", "i", "c", "e", "-", "o", "v", "e", "r", "-", "t", "i", "m", "e">>
S_volume_over_time == <<"v", "o", "l", "u", "m", "e", "-", "o", "v", "e", "r", "-", "t", "i", "m", "e">>
S_trades == <<"t", "r", "a", "d", "e", "s">>
S_misc == <<"m", "i", "s", "c">>
S_STRING == <<"S", "T", "R", "I", "N", "G">>
S_INT == <<"I", "N", "T">>
S_FLOAT == <<"F", "L", "O", "A", "T">>
S_DOUBLE == <<"D", "O", "U", "B", "L", "E">>
S_name == <<"n", "a", "m", "e">>
S_class == <<"c", "l", "a", "s", "s">>
S_day == <<"d", "a", "y">>
S_price == <<"p", "r", "i", "c", "e">>
S_volume == <<"v", "o", "l", "u", "m", "e">>
S_id == <<"i", "d">>
S_quantity == <<"q", "u", "a", "n", "t", "i", "t", "y">>
S_asset_class_counts == <<"a", "s", "s", "e", "t", "-", "c", "l", "a", "s", "s", "_", "c", "o", "u", "n", "t", "s">>
S_asset_class == <<"a", "s", "s", "e", "t", "-", "c", "l", "a", "s", "s">>
S_count == <<"c", "o", "u", "n", "t">>
S_bond == <<"b", "o", "n", "d">>
S_stock == <<"s", "t", "o", "c", "k">>
S_fund == <<"f", "u", "n", "d">>
S_AAA == <<"A", "A", "A">>
S_BBB == <<"B", "B", "B">>
S_a_b == <<"a", ",", "b">>
S_x == <<"x">>
S_13 == <<"1", "3">>
S_9_5 == <<"9", ".", "5">>
S_10_0 == <<"1", "0", ".", "0">>
S_250_0 == <<"2", "5", "0", ".", "0">>
S_300_0 == <<"3", "0", "0", ".", "0">>
S_1 == <<"1">>
S_2 == <<"2">>
S_5 == <<"5">>

\* The characters of the vocabulary in the order of their codes, the order
\* std::string's operator< compares by.
CharOrder == <<"\n", " ", "+", ",", "-", ".", "0", "1", "2", "3", "4", "5", "6", "7", "8", "9", "<", ">", "A", "B", "D", "E", "F", "G", "I", "L", "N", "O", "R", "S", "T", "U", "_", "a", "b", "c", "d", "e", "f", "i", "k", "l", "m", "n", "o", "p", "q", "r", "s", "t", "u", "v", "x", "y">>

Ord(c) == CHOOSE k \in 1..Len(CharOrder) : CharOrder[k] = c

\* std::string operator<: lexicographic, a proper prefix is smaller.
RECURSIVE StrLess(_, _)
StrLess(a, b) ==
  IF b = <<>> THEN FALSE
  ELSE IF a = <<>> THEN TRUE
  ELSE IF Head(a) # Head(b) THEN Ord(Head(a)) < Ord(Head(b))
  ELSE StrLess(Tail(a), Tail(b))

\* The keys of a std::map<string, T> in iteration order.
RECURSIVE SortedKeys(_)
SortedKeys(S) ==
  IF S = {} THEN <<>>
  ELSE LET least == CHOOSE k \in S : \A o \in S \ {k} : StrLess(k, o)
       IN  <<least>> \o SortedKeys(S \ {least})

\* s.find(delimiter) for a one-character delimiter: the 0-based position of
\* its first occurrence, Len(s) standing for npos.
RECURSIVE Find(_, _)
Find(s, d) ==
  IF s = <<>> THEN 0
  ELSE IF Head(s) = d THEN 0
  ELSE 1 + Find(Tail(s), d)

\* split_at for a one-character delimiter ("," and "\n" are the only uses).
RECURSIVE split_at(_, _)
split_at(t, d) ==
  LET pos == Find(t, d)
  IN  IF pos = Len(t) THEN <<t>>
      ELSE <<SubSeq(t, 1, pos)>> \o split_at(SubSeq(t, pos + 2, Len(t)), d)

Digits == <<"0", "1", "2", "3", "4", "5", "6", "7", "8", "9">>

IsDigit(c) == \E k \in 1..Len(Digits) : Digits[k] = c

DigitVal(c) == (CHOOSE k \in 1..Len(Digits) : Digits[k] = c) - 1

\* The longest prefix of s made of digits.
RECURSIVE DigitPrefix(_)
DigitPrefix(s) ==
  IF s = <<>> \/ ~IsDigit(Head(s)) THEN <<>>
  ELSE <<Head(s)>> \o DigitPrefix(Tail(s))

RECURSIVE DigitsValue(_, _)
DigitsValue(s, acc) ==
  IF s = <<>> THEN acc ELSE DigitsValue(Tail(s), acc * 10 + DigitVal(Head(s)))

\* strtol/strtof skip leading white space.
RECURSIVE SkipSpace(_)
SkipSpace(s) ==
  IF s # <<>> /\ Head(s) = " " THEN SkipSpace(Tail(s)) ELSE s

HasSign(s) == s # <<>> /\ Head(s) \in {"+", "-"}

Unsigned(s) == IF HasSign(s) THEN Tail(s) ELSE s

Signed(s, v) == IF s # <<>> /\ Head(s) = "-" THEN 0 - v ELSE v

\* std::stoi: white space, an optional sign, then the longest run of digits;
\* what follows is ignored.  No digit: std::invalid_argument.  (Every
\* number of the vocabulary fits an int, so std::out_of_range never arises.)
StoiValue(str) ==
  LET s == SkipSpace(str)
  IN  Signed(s, DigitsValue(DigitPrefix(Unsigned(s)), 0))

StoiOk(str) == DigitPrefix(Unsigned(SkipSpace(str))) # <<>>

\* std::stof on decimal text without an exponent: white space, an optional
\* sign, digits, an optional point and digits.  The value in tenths; the
\* vocabulary has no text with a second fractional digit.
StofValue(str) ==
  LET s == SkipSpace(str)
      u == Unsigned(s)
      ip == DigitPrefix(u)
      rest == SubSeq(u, Len(ip) + 1, Len(u))
      fp == IF rest # <<>> /\ Head(rest) = "." THEN DigitPrefix(Tail(rest)) ELSE <<>>
      tenth == IF fp = <<>> THEN 0 ELSE DigitVal(Head(fp))
  IN  Signed(s, DigitsValue(ip, 0) * 10 + tenth)

StofOk(str) ==
  LET u == Unsigned(SkipSpace(str))
      ip == DigitPrefix(u)
      rest == SubSeq(u, Len(ip) + 1, Len(u))
  IN  \/ ip # <<>>
      \/ rest # <<>> /\ Head(rest) = "." /\ DigitPrefix(Tail(rest)) # <<>>

\* The decimal digits of a natural number.
RECURSIVE NatText(_)
NatText(n) ==
  IF n < 10 THEN <<Digits[n + 1]>>
  ELSE NatText(n \div 10) \o <<Digits[(n % 10) + 1]>>

\* out << int.
IntText(v) == IF v < 0 THEN <<"-">> \o NatText(0 - v) ELSE NatText(v)

\* out << float at the default precision of six significant digits, without
\* trailing zeros or a trailing point, for a value held in tenths.
FloatText(v) ==
  LET a == IF v < 0 THEN 0 - v ELSE v
      body == IF a % 10 = 0 THEN NatText(a \div 10)
              ELSE NatText(a \div 10) \o <<".">> \o <<Digits[(a % 10) + 1]>>
  IN  IF v < 0 THEN <<"-">> \o body ELSE body

\* ------------------------------------------------------------ fields, tables

IntField(v) == [tp |-> FIELD_TYPE_INT, i |-> v, f |-> 0, s |-> <<>>]

FloatField(v) == [tp |-> FIELD_TYPE_FLOAT, i |-> 0, f |-> v, s |-> <<>>]

StringField(v) == [tp |-> FIELD_TYPE_STRING, i |-> 0, f |-> 0, s |-> v]

\* Field::print of the three field classes.
FieldText(fld) ==
  IF fld.tp = FIELD_TYPE_INT THEN IntText(fld.i)
  ELSE IF fld.tp = FIELD_TYPE_FLOAT THEN FloatText(fld.f)
  ELSE fld.s

\* operator<<(ostream, FieldType).
FieldTypeText(tp) ==
  IF tp = FIELD_TYPE_STRING THEN S_STRING
  ELSE IF tp = FIELD_TYPE_INT THEN S_INT
  ELSE S_FLOAT

DenseTable(name_, columnNames_, columnTypes_) ==
  [name |-> name_, columnNames |-> columnNames_, columnTypes |-> columnTypes_,
   records |-> <<>>]

\* DenseTable::addRecord.
addRecord(t, r) == [t EXCEPT !.records = Append(@, r)]

\* ------------------------------------------------------------------ state

VARIABLES
  lines,                \* main: csvLines, the document as far as it is known
  feed,                 \* TRUE while the document is still being supplied
  i,                    \* loadTablesFromCSV: the loop index
  tables,               \* ReferenceQueryEngine::tables
  table_headers,        \* ReferenceQueryEngine::table_headers
  name_to_class,        \* std::map<string, string>
  name_to_date_price,   \* std::map<string, std::map<int, float>>
  name_to_date_volume,  \* std::map<string, std::map<int, float>>
  name_to_trades,       \* std::map<string, vector<tuple<int, int, int>>>
  cur_table,            \* loadTablesFromCSV: local
  cur_table_flag,       \* loadTablesFromCSV: local, not initialized
  pc,                   \* where the program is
  ite,                  \* exe: how many keys of name_to_class the iterator has passed
  valid_flag,           \* exe: local, declared outside the loop
  valid_stock_cnt,      \* exe: local
  valid_bond_cnt,       \* exe: local
  result,               \* main: table, <<>> while it is null
  runs,                 \* main: exe() calls completed
  orig                  \* the table whose printed text is loaded, <<>> if none

indexVars == <<name_to_class, name_to_date_price, name_to_date_volume, name_to_trades>>

loadVars == <<lines, feed, i, tables, table_headers, cur_table, cur_table_flag>>

exeVars == <<ite, valid_flag, valid_stock_cnt, valid_bond_cnt, result, runs>>

vars == <<lines, feed, i, tables, table_headers, name_to_class, name_to_date_price, name_to_date_volume, name_to_trades, cur_table, cur_table_flag, pc, ite, valid_flag, valid_stock_cnt, valid_bond_cnt, result, runs, orig>>

\* ------------------------------------------------------------ fed documents

Header(name, cols, types) == << <<S_TABLE, name>>, cols, types >>

TradableHeader(name) == Header(name, <<S_name, S_class>>, <<S_STRING, S_STRING>>)

SeriesHeader(name, col) == Header(name, <<S_day, S_name, col>>, <<S_INT, S_STRING, S_FLOAT>>)

TradesHeader(name) == Header(name, <<S_id, S_day, S_name, S_quantity>>, <<S_INT, S_INT, S_STRING, S_INT>>)

\* The four tables of the query with their schemas, and a table of another
\* name with the schema of tradable or of a series.
FeedHeaders ==
  { TradableHeader(S_tradable), SeriesHeader(S_price_over_time, S_price),
    SeriesHeader(S_volume_over_time, S_volume), TradesHeader(S_trades),
    TradableHeader(S_misc), SeriesHeader(S_misc, S_price) }

\* Headers that cannot be read: the document ends inside the header, a type
\* that is none of the three, more names than types, no table name.
FeedBadHeaders ==
  { << <<S_TABLE, S_misc>>, <<S_name>> >>,
    Header(S_misc, <<S_name>>, <<S_DOUBLE>>),
    Header(S_misc, <<S_name, S_class>>, <<S_STRING>>),
    << <<S_TABLE>>, <<S_name>>, <<S_STRING>> >> }

\* Rows of two, three and four fields, and one whose day is no number.
FeedRows ==
  {<<S_AAA, S_stock>>}
    \cup {<<S_13, S_AAA, p>> : p \in {S_250_0, S_300_0}}
    \cup {<<S_1, S_13, S_AAA, S_5>>}
    \cup {<<S_x, S_AAA, S_250_0>>}

\* ------------------------------------------------------------ loading

numColumns(t) == Len(t.columnNames)

KnownType(c) == c \in {S_STRING, S_INT, S_FLOAT}

\* lines 367-378: the FieldType of a type name.
ColumnType(c) ==
  IF c = S_STRING THEN FIELD_TYPE_STRING
  ELSE IF c = S_INT THEN FIELD_TYPE_INT
  ELSE FIELD_TYPE_FLOAT

\* lines 356-379: the assertions of the header branch, and l.at(1).
HeaderOk(doc, at) ==
  /\ at < Len(doc) - 2
  /\ Len(doc[at + 2]) >= 1
  /\ Len(doc[at + 2]) = Len(doc[at + 3])
  /\ \A c \in 1..Len(doc[at + 3]) : KnownType(doc[at + 3][c])
  /\ Len(doc[at + 1]) >= 2

\* lines 383-391: the flag of a table name; another name leaves the flag alone.
FlagOf(name, old) ==
  IF name = S_tradable THEN TRADABLE
  ELSE IF name = S_price_over_time THEN PRICE_OVER_TIME
  ELSE IF name = S_volume_over_time THEN VOLUME_OVER_TIME
  ELSE IF name = S_trades THEN TRADES
  ELSE old

\* lines 402-414: can every field of the line be parsed (stoi and stof throw
\* otherwise).
RecordParses(types, l) ==
  \A c \in 1..Len(types) :
    /\ types[c] = FIELD_TYPE_INT => StoiOk(l[c])
    /\ types[c] = FIELD_TYPE_FLOAT => StofOk(l[c])

ParseRecord(types, l) ==
  [c \in 1..Len(types) |->
     IF types[c] = FIELD_TYPE_STRING THEN StringField(l[c])
     ELSE IF types[c] = FIELD_TYPE_INT THEN IntField(StoiValue(l[c]))
     ELSE FloatField(StofValue(l[c]))]

\* ArityOk with the test weakened to "enough fields".
ArityAtLeast(t, l) == numColumns(t) <= Len(l)

\* lines 395-399: the assertions of the data branch.
ArityOk(t, l) == numColumns(t) = Len(l)

\* What static_cast<XField*>(record[c].get())->val reads: the field's value
\* if record[c] exists and is of that class; otherwise the read is undefined
\* and may return anything.
GarbageStrings == {<<>>, S_AAA}

GarbageInts == {0, 13}

GarbageFloats == {0, 3000}

StringAt(record, c) ==
  IF c <= Len(record) /\ record[c].tp = FIELD_TYPE_STRING THEN {record[c].s}
  ELSE GarbageStrings

IntAt(record, c) ==
  IF c <= Len(record) /\ record[c].tp = FIELD_TYPE_INT THEN {record[c].i}
  ELSE GarbageInts

FloatAt(record, c) ==
  IF c <= Len(record) /\ record[c].tp = FIELD_TYPE_FLOAT THEN {record[c].f}
  ELSE GarbageFloats

HasType(record, c, tp) == c <= Len(record) /\ record[c].tp = tp

\* Every cast of the flag's case reads a field of the class it names.
WellTyped(flag, record) ==
  IF flag = TRADABLE
    THEN HasType(record, 1, FIELD_TYPE_STRING) /\ HasType(record, 2, FIELD_TYPE_STRING)
  ELSE IF flag \in {PRICE_OVER_TIME, VOLUME_OVER_TIME}
    THEN /\ HasType(record, 1, FIELD_TYPE_INT)
         /\ HasType(record, 2, FIELD_TYPE_STRING)
         /\ HasType(record, 3, FIELD_TYPE_FLOAT)
  ELSE IF flag = TRADES
    THEN /\ HasType(record, 1, FIELD_TYPE_INT)
         /\ HasType(record, 2, FIELD_TYPE_INT)
         /\ HasType(record, 3, FIELD_TYPE_STRING)
         /\ HasType(record, 4, FIELD_TYPE_INT)
  ELSE TRUE

\* std::map::insert: a key that is present keeps its value.
MapInsert(m, k, v) == IF k \in DOMAIN m THEN m ELSE m @@ (k :> v)

\* lines 431-437 and 444-450: insert (day, value) into the series of name.
SeriesInsert(m, name, day, v) ==
  IF name \in DOMAIN m
    THEN [m EXCEPT ![name] = MapInsert(@, day, v)]
    ELSE MapInsert(m, name, day :> v)

\* lines 458-464: append the trade to the trades of name.
TradesInsert(m, name, t) ==
  IF name \in DOMAIN m
    THEN [m EXCEPT ![name] = Append(@, t)]
    ELSE MapInsert(m, name, <<t>>)

\* lines 419-469: the index maps after the switch on cur_table_flag, one
\* outcome for each value the reads can return.
IndexOutcomes(flag, record) ==
  LET now == [cls |-> name_to_class, price |-> name_to_date_price,
              volume |-> name_to_date_volume, trades |-> name_to_trades]
  IN  IF flag = TRADABLE
        THEN {[now EXCEPT !.cls = MapInsert(@, n, c)] :
                n \in StringAt(record, 1), c \in StringAt(record, 2)}
      ELSE IF flag = PRICE_OVER_TIME
        THEN {[now EXCEPT !.price = SeriesInsert(@, x[1], x[2], x[3])] :
                x \in StringAt(record, 2) \X IntAt(record, 1) \X FloatAt(record, 3)}
      ELSE IF flag = VOLUME_OVER_TIME
        THEN {[now EXCEPT !.volume = SeriesInsert(@, x[1], x[2], x[3])] :
                x \in StringAt(record, 2) \X IntAt(record, 1) \X FloatAt(record, 3)}
      ELSE IF flag = TRADES
        THEN {[now EXCEPT !.trades = TradesInsert(@, x[1], <<x[2], x[3], x[4]>>)] :
                x \in StringAt(record, 3) \X IntAt(record, 1) \X IntAt(record, 2)
                        \X IntAt(record, 4)}
      ELSE {now}

\* The lines the loop may be given next: one of the vocabulary while the
\* document is being supplied and has room, none once it is fixed.
Supply(S) ==
  IF feed THEN {ext \in S : Len(lines) + Len(ext) <= MaxLines} ELSE {<<>>}

\* lines 354-393: a <TABLE> line and the two header lines after it.
LoadTable ==
  /\ pc = "load"
  /\ \E ext \in Supply(FeedHeaders) :
       LET doc == lines \o ext
       IN  /\ i < Len(doc)
           /\ Len(doc[i + 1]) > 0
           /\ doc[i + 1][1] = S_TABLE
           /\ HeaderOk(doc, i)
           /\ LET columnNames == doc[i + 2]
                  columnTypes == [c \in 1..Len(doc[i + 3]) |-> ColumnType(doc[i + 3][c])]
                  name == doc[i + 1][2]
              IN  /\ tables' = Append(tables, DenseTable(name, columnNames, columnTypes))
                  /\ table_headers' = Append(table_headers, <<name, columnNames, columnTypes>>)
                  /\ cur_table' = name
                  /\ cur_table_flag' = FlagOf(name, cur_table_flag)
           /\ lines' = doc
           /\ i' = i + 3
  /\ UNCHANGED <<feed, pc, orig>>
  /\ UNCHANGED indexVars
  /\ UNCHANGED exeVars

\* lines 356-379: a <TABLE> line whose header fails an assertion, or has no
\* name for l.at(1): the program ends there.
LoadTableAbort ==
  /\ pc = "load"
  /\ \E ext \in Supply(FeedBadHeaders) :
       LET doc == lines \o ext
       IN  /\ i < Len(doc)
           /\ Len(doc[i + 1]) > 0
           /\ doc[i + 1][1] = S_TABLE
           /\ ~HeaderOk(doc, i)
           /\ lines' = doc
  /\ pc' = "aborted"
  /\ UNCHANGED <<feed, i, tables, table_headers, cur_table, cur_table_flag, orig>>
  /\ UNCHANGED indexVars
  /\ UNCHANGED exeVars

\* Can the row at lines[i] be read: a table exists, the arity is the
\* table's, every number parses.
RowOk(doc) ==
  /\ Len(doc[i + 1]) > 0
  /\ Len(tables) > 0
  /\ ArityOk(tables[Len(tables)], doc[i + 1])
  /\ RecordParses(tables[Len(tables)].columnTypes, doc[i + 1])

IsRow(doc) == i < Len(doc) /\ (Len(doc[i + 1]) > 0 => doc[i + 1][1] # S_TABLE)

\* lines 394-471: a data row, its record and its index entry.
LoadData ==
  /\ pc = "load"
  /\ \E ext \in Supply({<<r>> : r \in FeedRows}) :
       LET doc == lines \o ext
       IN  /\ IsRow(doc)
           /\ RowOk(doc)
           /\ LET record == ParseRecord(tables[Len(tables)].columnTypes, doc[i + 1])
              IN  /\ \E ix \in IndexOutcomes(cur_table_flag, record) :
                        /\ name_to_class' = ix.cls
                        /\ name_to_date_price' = ix.price
                        /\ name_to_date_volume' = ix.volume
                        /\ name_to_trades' = ix.trades
                  /\ tables' = [tables EXCEPT ![Len(tables)] = addRecord(@, record)]
           /\ lines' = doc
           /\ i' = i + 1
  /\ UNCHANGED <<feed, table_headers, cur_table, cur_table_flag, pc, orig>>
  /\ UNCHANGED exeVars

\* lines 353, 395, 399, 407, 409: a data row that fails an assertion or
\* makes stoi or stof throw: the program ends there.
LoadDataAbort ==
  /\ pc = "load"
  /\ \E ext \in Supply({<<r>> : r \in FeedRows}) :
       LET doc == lines \o ext
       IN  /\ IsRow(doc)
           /\ ~RowOk(doc)
           /\ lines' = doc
  /\ pc' = "aborted"
  /\ UNCHANGED <<feed, i, tables, table_headers, cur_table, cur_table_flag, orig>>
  /\ UNCHANGED indexVars
  /\ UNCHANGED exeVars

\* lines 419-466: a cast to a field class the record does not hold there is
\* undefined; besides returning anything, the read may end the program.
LoadDataCrash ==
  /\ pc = "load"
  /\ \E ext \in Supply({<<r>> : r \in FeedRows}) :
       LET doc == lines \o ext
       IN  /\ IsRow(doc)
           /\ RowOk(doc)
           /\ ~WellTyped(cur_table_flag,
                         ParseRecord(tables[Len(tables)].columnTypes, doc[i + 1]))
           /\ lines' = doc
  /\ pc' = "crashed"
  /\ UNCHANGED <<feed, i, tables, table_headers, cur_table, cur_table_flag, orig>>
  /\ UNCHANGED indexVars
  /\ UNCHANGED exeVars

\* line 351: the loop ends at the end of the document.
LoadEnd ==
  /\ pc = "load"
  /\ i >= Len(lines)
  /\ pc' = "loaded"
  /\ feed' = FALSE
  /\ UNCHANGED <<lines, i, tables, table_headers, cur_table, cur_table_flag, orig>>
  /\ UNCHANGED indexVars
  /\ UNCHANGED exeVars

\* ------------------------------------------------------------------ query

\* line 495 and line 511: the first and the last day of the scan.
FirstDay == 13

LastDay == 268

\* line 496: 299.0, in tenths.
PriceLimit == 2990

\* line 512: 10.0, in tenths.
VolumeLimit == 100

S_bondstock == {S_stock, S_bond}

\* Skipped without the trades test.
SkippedByClass(name) == name_to_class[name] \notin S_bondstock

\* lines 482-489: the instrument is passed over: its class is neither stock
\* nor bond, or it has no trades.
Skipped(name) ==
  \/ name_to_class[name] \notin S_bondstock
  \/ name \notin DOMAIN name_to_trades

Least(S) == CHOOSE d \in S : \A o \in S : d <= o

\* std::map<int, float>::lower_bound(k) as the keys from there to end().
lower_bound(m, k) == {d \in DOMAIN m : d >= k}

\* PriceScan with >= for >.
RECURSIVE PriceScanAtLimit(_, _)
PriceScanAtLimit(date_to_price, rest) ==
  IF rest = {} THEN TRUE
  ELSE LET day == CHOOSE d \in rest : \A o \in rest : d <= o
       IN  IF ~(day <= LastDay) THEN TRUE
           ELSE IF date_to_price[day] >= PriceLimit THEN FALSE
           ELSE PriceScanAtLimit(date_to_price, rest \ {day})

\* lines 494-500: the loop over the prices from lower_bound(13) while the
\* day is at most 268; rest are the keys from ite2 to end().  The value of
\* valid_flag after it.
RECURSIVE PriceScan(_, _)
PriceScan(date_to_price, rest) ==
  IF rest = {} THEN TRUE
  ELSE LET day == Least(rest)
       IN  IF ~(day <= LastDay) THEN TRUE
           ELSE IF date_to_price[day] > PriceLimit THEN FALSE
           ELSE PriceScan(date_to_price, rest \ {day})

\* lines 510-516: the same loop over the volumes.
RECURSIVE VolumeScan(_, _)
VolumeScan(date_to_volume, rest) ==
  IF rest = {} THEN TRUE
  ELSE LET day == Least(rest)
       IN  IF ~(day <= LastDay) THEN TRUE
           ELSE IF date_to_volume[day] < VolumeLimit THEN FALSE
           ELSE VolumeScan(date_to_volume, rest \ {day})

\* lines 491-501: valid_flag after the price check of name.
PriceCheck(name, flag) ==
  IF name \in DOMAIN name_to_date_price
    THEN PriceScan(name_to_date_price[name], lower_bound(name_to_date_price[name], FirstDay))
    ELSE flag

\* VolumeCheck with the flag of the price check kept: line 510 left out.
VolumeCheckCarried(name, flag) ==
  IF name \in DOMAIN name_to_date_volume
    THEN flag /\ \A d \in DOMAIN name_to_date_volume[name] :
                   (d >= FirstDay /\ d <= LastDay) => ~(name_to_date_volume[name][d] < VolumeLimit)
    ELSE flag

\* lines 507-517: valid_flag after the volume check of name.
VolumeCheck(name, flag) ==
  IF name \in DOMAIN name_to_date_volume
    THEN VolumeScan(name_to_date_volume[name], lower_bound(name_to_date_volume[name], FirstDay))
    ELSE flag

\* TradeCount as the traded quantity: the sum of the third components.
RECURSIVE TradeQuantity(_)
TradeQuantity(trades) ==
  IF trades = <<>> THEN 0 ELSE Head(trades)[3] + TradeQuantity(Tail(trades))

\* lines 503-504 and 519-520: trades_ite->second.size().
TradeCount(trades) == Len(trades)

\* ResultRows with the two rows in the other order.
ResultRowsStockFirst(bond_cnt, stock_cnt) ==
  (IF stock_cnt # 0 THEN << <<StringField(S_stock), IntField(stock_cnt)>> >> ELSE <<>>)
    \o (IF bond_cnt # 0 THEN << <<StringField(S_bond), IntField(bond_cnt)>> >> ELSE <<>>)

\* lines 526-537: the rows of the result.
ResultRows(bond_cnt, stock_cnt) ==
  (IF bond_cnt # 0 THEN << <<StringField(S_bond), IntField(bond_cnt)>> >> ELSE <<>>)
    \o (IF stock_cnt # 0 THEN << <<StringField(S_stock), IntField(stock_cnt)>> >> ELSE <<>>)

\* lines 524-525.
EmptyResult ==
  DenseTable(S_asset_class_counts, <<S_asset_class, S_count>>,
             <<FIELD_TYPE_STRING, FIELD_TYPE_INT>>)

Keys == SortedKeys(DOMAIN name_to_class)

\* The instrument the iterator is at.
CurName == Keys[ite + 1]

\* exe entered with the totals of the call before it still in place.
ExeStartKeepTotals ==
  /\ UNCHANGED <<valid_stock_cnt, valid_bond_cnt>>
  /\ valid_flag' = FALSE
  /\ ite' = 0
  /\ pc' = "exe_loop"
  /\ UNCHANGED <<result, runs, orig>>
  /\ UNCHANGED loadVars
  /\ UNCHANGED indexVars

\* exe lines 479-481: the locals of a call.
ExeStart ==
  /\ valid_stock_cnt' = 0
  /\ valid_bond_cnt' = 0
  /\ valid_flag' = FALSE
  /\ ite' = 0
  /\ pc' = "exe_loop"
  /\ UNCHANGED <<result, runs, orig>>
  /\ UNCHANGED loadVars
  /\ UNCHANGED indexVars

\* main line 580, exe lines 479-481: the first call.
ExeBegin ==
  /\ pc = "loaded"
  /\ ExeStart

\* main lines 576-588: a further call of the timing loop.
ExeAgain ==
  /\ pc = "done"
  /\ runs < MaxRuns
  /\ ExeStart

\* lines 481-489: the class and trades tests of the instrument at ite.
ExeFilter ==
  /\ pc = "exe_loop"
  /\ ite < Len(Keys)
  /\ IF Skipped(CurName)
       THEN ite' = ite + 1 /\ pc' = "exe_loop"
       ELSE ite' = ite /\ pc' = "exe_price"
  /\ UNCHANGED <<valid_flag, valid_stock_cnt, valid_bond_cnt, result, runs, orig>>
  /\ UNCHANGED loadVars
  /\ UNCHANGED indexVars

\* The class total of name grows by its number of trades (the totals stay
\* far below the range of an int).
Count(name) ==
  IF name_to_class[name] = S_stock
    THEN /\ valid_stock_cnt' = valid_stock_cnt + TradeCount(name_to_trades[name])
         /\ valid_bond_cnt' = valid_bond_cnt
    ELSE /\ valid_bond_cnt' = valid_bond_cnt + TradeCount(name_to_trades[name])
         /\ valid_stock_cnt' = valid_stock_cnt

\* lines 491-506: the price check, and the count if the flag is set.
ExePrice ==
  /\ pc = "exe_price"
  /\ valid_flag' = PriceCheck(CurName, valid_flag)
  /\ IF valid_flag'
       THEN Count(CurName) /\ ite' = ite + 1 /\ pc' = "exe_loop"
       ELSE /\ UNCHANGED <<valid_stock_cnt, valid_bond_cnt, ite>>
            /\ pc' = "exe_volume"
  /\ UNCHANGED <<result, runs, orig>>
  /\ UNCHANGED loadVars
  /\ UNCHANGED indexVars

\* lines 507-522: the volume check, and the count if the flag is set.
ExeVolume ==
  /\ pc = "exe_volume"
  /\ valid_flag' = VolumeCheck(CurName, valid_flag)
  /\ IF valid_flag'
       THEN Count(CurName)
       ELSE UNCHANGED <<valid_stock_cnt, valid_bond_cnt>>
  /\ ite' = ite + 1
  /\ pc' = "exe_loop"
  /\ UNCHANGED <<result, runs, orig>>
  /\ UNCHANGED loadVars
  /\ UNCHANGED indexVars

\* line 481 at end(), lines 524-538, main line 580: the result is built
\* and returned.
ExeEmit ==
  /\ pc = "exe_loop"
  /\ ite = Len(Keys)
  /\ result' = <<[EmptyResult EXCEPT !.records = ResultRows(valid_bond_cnt, valid_stock_cnt)]>>
  /\ runs' = runs + 1
  /\ pc' = "done"
  /\ UNCHANGED <<ite, valid_flag, valid_stock_cnt, valid_bond_cnt, orig>>
  /\ UNCHANGED loadVars
  /\ UNCHANGED indexVars

\* ------------------------------------------------------------ the program

\* main lines 557-569: an engine with nothing in it at the start of the load.
EmptyEngine ==
  /\ i = 0
  /\ tables = <<>>
  /\ table_headers = <<>>
  /\ name_to_class = <<>>
  /\ name_to_date_price = <<>>
  /\ name_to_date_volume = <<>>
  /\ name_to_trades = <<>>
  /\ cur_table = <<>>
  /\ cur_table_flag \in TableFlags

NoQuery ==
  /\ ite = 0
  /\ valid_flag = FALSE
  /\ valid_stock_cnt = 0
  /\ valid_bond_cnt = 0
  /\ result = <<>>
  /\ runs = 0

\* One <TABLE> block: a header and its rows.
Block(header, rows) == header \o rows

\* The blocks whole documents are made of: tradable with one or two
\* instruments; a price series that passes, fails, or has one day twice; a
\* volume series that fails or passes; trades of one or two instruments; a
\* table of another name; a row whose day is no number; an unknown type.
DocBlocks ==
  {Block(TradableHeader(S_tradable), <<<<S_AAA, c>>>>) : c \in {S_stock, S_bond, S_fund}}
    \cup {Block(TradableHeader(S_tradable), <<<<S_AAA, S_stock>>, <<S_BBB, S_stock>>>>)}
    \cup {Block(SeriesHeader(S_price_over_time, S_price), <<<<S_13, S_AAA, p>>>>) :
            p \in {S_250_0, S_300_0}}
    \cup {Block(SeriesHeader(S_price_over_time, S_price),
                <<<<S_13, S_AAA, S_300_0>>, <<S_13, S_AAA, S_250_0>>>>)}
    \cup {Block(SeriesHeader(S_volume_over_time, S_volume), <<<<S_13, S_AAA, v>>>>) :
            v \in {S_9_5, S_10_0}}
    \cup {Block(TradesHeader(S_trades), <<<<S_1, S_13, S_AAA, S_5>>>>)}
    \cup {Block(TradesHeader(S_trades),
                <<<<S_1, S_13, S_AAA, S_5>>, <<S_2, S_13, S_BBB, S_5>>>>)}
    \cup {Block(TradableHeader(S_misc), <<<<S_BBB, S_stock>>>>)}
    \cup {Block(SeriesHeader(S_volume_over_time, S_volume), <<<<S_x, S_AAA, S_250_0>>>>)}
    \cup {Header(S_misc, <<S_name>>, <<S_DOUBLE>>)}

\* The documents of at most n blocks.
RECURSIVE Docs(_)
Docs(n) ==
  IF n = 0 THEN {<<>>}
  ELSE Docs(n - 1) \cup {d \o b : d \in Docs(n - 1), b \in DocBlocks}

\* main lines 551-569: a document has been read and split; the load begins.
Init ==
  /\ lines \in Docs(MaxBlocks)
  /\ feed = FALSE
  /\ pc = "load"
  /\ orig = <<>>
  /\ EmptyEngine
  /\ NoQuery

\* The same with the document supplied line by line as the loop reads it.
InitLoad ==
  /\ lines = <<>>
  /\ feed = TRUE
  /\ pc = "load"
  /\ orig = <<>>
  /\ EmptyEngine
  /\ NoQuery

Load == LoadTable \/ LoadTableAbort \/ LoadData \/ LoadDataAbort \/ LoadDataCrash \/ LoadEnd

Exe == ExeBegin \/ ExeFilter \/ ExePrice \/ ExeVolume \/ ExeEmit

Next == Load \/ Exe \/ ExeAgain

\* The program on whole documents.
Spec == Init /\ [][Next]_vars

\* loadTablesFromCSV on every document of the vocabulary.
SpecLoad == InitLoad /\ [][Load]_vars

\* ------------------------------------------------------------ the query alone

StoreNames == {S_AAA, S_BBB}

StoreClasses == {S_stock, S_bond, S_fund}

\* The days around both ends of the scan.
Days == {FirstDay - 1, FirstDay, LastDay, LastDay + 1}

\* Prices and volumes at the limit and on its failing side; a day outside
\* the scan is given only a value that would fail inside it.
PriceEntries ==
  {e \in Days \X {PriceLimit, PriceLimit + 10} :
     e[1] \in FirstDay..LastDay \/ e[2] > PriceLimit}

VolumeEntries ==
  {e \in Days \X {VolumeLimit - 5, VolumeLimit} :
     e[1] \in FirstDay..LastDay \/ e[2] < VolumeLimit}

\* <<series, name, day, value>>.
Entries ==
  {<<"price", n, e[1], e[2]>> : n \in StoreNames, e \in PriceEntries}
    \cup {<<"volume", n, e[1], e[2]>> : n \in StoreNames, e \in VolumeEntries}

\* The subsets of S of at most k elements.
RECURSIVE UpTo(_, _)
UpTo(S, k) ==
  IF k = 0 THEN {{}}
  ELSE LET P == UpTo(S, k - 1) IN P \cup {T \cup {x} : T \in P, x \in S}

\* One value for a day of a series.
OneValue(E) ==
  \A a \in E, b \in E : (a[1] = b[1] /\ a[2] = b[2] /\ a[3] = b[3]) => a[4] = b[4]

\* The series map the entries of one kind make.
SeriesOf(E, kind) ==
  LET mine == {e \in E : e[1] = kind}
  IN  [n \in {e[2] : e \in mine} |->
         [d \in {e[3] : e \in {x \in mine : x[2] = n}} |->
            (CHOOSE e \in mine : e[2] = n /\ e[3] = d)[4]]]

\* The trades map of given numbers of trades: trade k is <<k, 13, 5>>.
TradesOf(cnt) ==
  [n \in {x \in StoreNames : cnt[x] > 0} |-> [k \in 1..cnt[n] |-> <<k, FirstDay, 5>>]]

\* A loaded engine as exe() sees it: the four index maps, the only state
\* exe() reads.  Every such store is what the load leaves for the document
\* that lists its entries; the tables and the document are left out.
InitExe ==
  /\ lines = <<>>
  /\ feed = FALSE
  /\ i = 0
  /\ tables = <<>>
  /\ table_headers = <<>>
  /\ cur_table = <<>>
  /\ cur_table_flag = TRADES
  /\ orig = <<>>
  /\ pc = "loaded"
  /\ NoQuery
  /\ name_to_class \in [StoreNames -> StoreClasses]
  /\ \E E \in UpTo(Entries, MaxEntries) :
       /\ OneValue(E)
       /\ name_to_date_price = SeriesOf(E, "price")
       /\ name_to_date_volume = SeriesOf(E, "volume")
  /\ \E cnt \in [StoreNames -> 0..MaxTrades] :
       /\ cnt[S_AAA] + cnt[S_BBB] <= MaxTrades
       /\ name_to_trades = TradesOf(cnt)

\* One call of exe() on every store of the vocabulary.
SpecExe == InitExe /\ [][Exe]_vars

\* ------------------------------------------------------------ print and load

RECURSIVE Join(_, _)
Join(parts, sep) ==
  IF parts = <<>> THEN <<>>
  ELSE IF Len(parts) = 1 THEN parts[1]
  ELSE parts[1] \o sep \o Join(Tail(parts), sep)

RECURSIVE Concat(_)
Concat(parts) == IF parts = <<>> THEN <<>> ELSE Head(parts) \o Concat(Tail(parts))

\* DenseTable::print: the text written to the stream.
print(t) ==
  S_TABLE \o <<",">> \o t.name \o <<"\n">>
    \o Join([c \in 1..numColumns(t) |-> FieldTypeText(t.columnTypes[c])], <<",">>) \o <<"\n">>
    \o Join(t.columnNames, <<",">>) \o <<"\n">>
    \o Concat([r \in 1..Len(t.records) |->
                 Join([c \in 1..Len(t.records[r]) |-> FieldText(t.records[r][c])], <<",">>)
                   \o <<"\n">>])

\* main lines 559-564: the text split into lines, the last piece dropped,
\* each line split into fields.
csvLines(str) ==
  LET pieces == split_at(str, "\n")
      ls == SubSeq(pieces, 1, Len(pieces) - 1)
  IN  [k \in 1..Len(ls) |-> split_at(ls[k], ",")]

\* The values of a column of a printed table.
ColumnValues(tp) ==
  IF tp = FIELD_TYPE_STRING THEN {StringField(S_AAA), StringField(S_a_b)}
  ELSE IF tp = FIELD_TYPE_INT THEN {IntField(13), IntField(0 - 5)}
  ELSE {FloatField(2500), FloatField(95)}

\* Column names: a plain one, and the names of two types.
ColumnNames == {S_name, S_STRING, S_INT}

FieldTypes == {FIELD_TYPE_STRING, FIELD_TYPE_INT, FIELD_TYPE_FLOAT}

\* The tables of one to MaxCols columns with no row or one row.
PrintedTables ==
  UNION {
    UNION {
      {[name |-> nm, columnNames |-> cn, columnTypes |-> ct, records |-> <<>>] :
         nm \in {S_misc, S_tradable}}
        \cup
      {[name |-> nm, columnNames |-> cn, columnTypes |-> ct, records |-> <<row>>] :
         nm \in {S_misc, S_tradable},
         row \in {r \in [1..n -> UNION {ColumnValues(tp) : tp \in FieldTypes}] :
                    \A c \in 1..n : r[c] \in ColumnValues(ct[c])}}
      : cn \in [1..n -> ColumnNames], ct \in [1..n -> FieldTypes]}
    : n \in 1..MaxCols}

\* A table to be printed, and an engine with nothing in it.
InitPrint ==
  /\ orig \in {<<t>> : t \in PrintedTables}
  /\ lines = <<>>
  /\ feed = FALSE
  /\ pc = "print"
  /\ EmptyEngine
  /\ NoQuery

\* DenseTable::print of the table, and main lines 559-564 on its text.
PrintTable ==
  /\ pc = "print"
  /\ lines' = csvLines(print(orig[1]))
  /\ pc' = "load"
  /\ UNCHANGED <<feed, i, tables, table_headers, cur_table, cur_table_flag, orig>>
  /\ UNCHANGED indexVars
  /\ UNCHANGED exeVars

\* A printed table loaded again.
SpecPrint == InitPrint /\ [][PrintTable \/ Load]_vars

\* ------------------------------------------------------------------ claims

HasPrice(n) == n \in DOMAIN name_to_date_price

HasVolume(n) == n \in DOMAIN name_to_date_volume

\* Some day from 13 to 268 of the price series of n has a price above 299.0.
PriceFails(n) ==
  \E d \in DOMAIN name_to_date_price[n] :
    d >= 13 /\ d <= 268 /\ name_to_date_price[n][d] > 2990

\* Some day from 13 to 268 of the volume series of n has a volume below 10.0.
VolumeFails(n) ==
  \E d \in DOMAIN name_to_date_volume[n] :
    d >= 13 /\ d <= 268 /\ name_to_date_volume[n][d] < 100

TotalsUnchanged ==
  valid_stock_cnt' = valid_stock_cnt /\ valid_bond_cnt' = valid_bond_cnt

\* The instrument the iterator has just passed.
LastName == Keys[ite]

\* C1: while exe() checks an instrument of class stock or bond that has
\* trades but neither a price series nor a volume series, neither class
\* total changes, whatever was evaluated before it.
C1_NoSeriesAddsNothing ==
  [][(pc \in {"exe_price", "exe_volume"} /\ ~HasPrice(CurName) /\ ~HasVolume(CurName))
       => TotalsUnchanged]_vars

\* The rows, in document order, of the tables of a name.
RECURSIVE RowsOf(_, _)
RowsOf(ts, name) ==
  IF ts = <<>> THEN <<>>
  ELSE (IF Head(ts).name = name THEN Head(ts).records ELSE <<>>) \o RowsOf(Tail(ts), name)

\* C2: once two price-over-time rows for the same instrument and day with
\* different prices have been loaded, the price series holds, for that
\* instrument and day, the price of the last such row.
C2_LaterPriceKept ==
  LET rows == RowsOf(tables, S_price_over_time)
      same(a, b) == rows[a][1].i = rows[b][1].i /\ rows[a][2].s = rows[b][2].s
  IN  \A a \in 1..Len(rows), b \in 1..Len(rows) :
        ( /\ a < b
          /\ same(a, b)
          /\ rows[a][3].f # rows[b][3].f
          /\ \A c \in (b + 1)..Len(rows) : ~same(b, c) )
        => /\ rows[b][2].s \in DOMAIN name_to_date_price
           /\ rows[b][1].i \in DOMAIN name_to_date_price[rows[b][2].s]
           /\ name_to_date_price[rows[b][2].s][rows[b][1].i] = rows[b][3].f

\* The document of the example has been loaded and queried: exactly one
\* tradable row (AAA, stock), one price-over-time row (13, AAA, 250.0) and
\* one trades row (1, 13, AAA, 5), the blocks in any order.
ExampleDone ==
  /\ pc = "done"
  /\ Len(tables) = 3
  /\ {<<tables[k].name, tables[k].records>> : k \in 1..3}
       = { <<S_tradable, << <<StringField(S_AAA), StringField(S_stock)>> >> >>,
           <<S_price_over_time, << <<IntField(13), StringField(S_AAA), FloatField(2500)>> >> >>,
           <<S_trades,
             << <<IntField(1), IntField(13), StringField(S_AAA), IntField(5)>> >> >> }

\* C3 as stated: the example yields exactly one row, ("stock", 5).
C3_ExampleQuantity ==
  ExampleDone => result[1].records = << <<StringField(S_stock), IntField(5)>> >>

\* C3 amended: the example yields exactly one row, ("stock", 1): the count
\* is the number of trade records of AAA, not the quantity traded.
C3_ExampleCount ==
  ExampleDone => result[1].records = << <<StringField(S_stock), IntField(1)>> >>

C3_Witness == ExampleDone

\* C4: the text DenseTable::print writes for a table, split as main splits
\* its input and loaded, leaves exactly one table, equal to the original
\* in name, column names, column types and rows.
C4_RoundTrip == pc \notin {"print", "load"} => tables = orig

RecognizedNames == {S_tradable, S_price_over_time, S_volume_over_time, S_trades}

\* C5: a data row loaded into a table whose name is none of tradable,
\* price-over-time, volume-over-time, trades changes none of the four index
\* maps.  Stated for the rows all of whose reads are defined: a table of a
\* recognized name came before, so cur_table_flag has been set, and the
\* fields of the row are of the classes the casts of that flag name.
C5_OtherTableNoIndex ==
  [][( /\ pc = "load"
       /\ Len(tables) > 0
       /\ tables[Len(tables)].name \notin RecognizedNames
       /\ \E k \in 1..Len(tables) : tables[k].name \in RecognizedNames
       /\ Len(tables') = Len(tables)
       /\ tables' # tables
       /\ LET rows == tables'[Len(tables)].records
          IN  WellTyped(cur_table_flag, rows[Len(rows)]) )
       => UNCHANGED indexVars]_vars

\* C6: for an instrument that has passed the class and trades tests and
\* has a price series, the price check leaves valid_flag false exactly if
\* some day from 13 to 268 of the series has a price above 299.0.
C6_PriceCheck ==
  [][(pc = "exe_price" /\ HasPrice(CurName)) => (valid_flag' = ~PriceFails(CurName))]_vars

\* An instrument whose prices are exactly 299.0 on day 13 and 300.0 on day
\* 269 has been checked and counted.
C6_Witness ==
  /\ pc = "exe_loop"
  /\ ite >= 1
  /\ name_to_class[LastName] \in {S_stock, S_bond}
  /\ LastName \in DOMAIN name_to_trades
  /\ HasPrice(LastName)
  /\ name_to_date_price[LastName] = (13 :> 2990) @@ (269 :> 3000)
  /\ valid_flag
  /\ valid_stock_cnt + valid_bond_cnt > 0

\* C7: an instrument whose class is neither stock nor bond, or that has no
\* trades, is passed over: neither total changes, valid_flag is left as it
\* was for the next instrument, and no series check is entered.
C7_FilterSkips ==
  [][( /\ pc = "exe_loop"
       /\ ite < Len(Keys)
       /\ \/ name_to_class[CurName] \notin {S_stock, S_bond}
          \/ CurName \notin DOMAIN name_to_trades )
       => /\ TotalsUnchanged
          /\ valid_flag' = valid_flag
          /\ pc' = "exe_loop"
          /\ ite' = ite + 1]_vars

\* An instrument of class fund with a failing price series has been passed
\* over while valid_flag was set by the instrument before it.
C7_Witness ==
  /\ pc = "exe_loop"
  /\ ite = 2
  /\ name_to_class[LastName] = S_fund
  /\ HasPrice(LastName)
  /\ PriceFails(LastName)
  /\ valid_flag
  /\ valid_stock_cnt + valid_bond_cnt > 0

\* C8: the table exe() returns is asset-class_counts(asset-class: STRING,
\* count: INT) with at most two rows: a bond row exactly if the bond total
\* is not zero, a stock row exactly if the stock total is not zero, each
\* with its total, bond before stock.
C8_ResultShape ==
  pc = "done" =>
    LET t == result[1]
        rowOf(cls, cnt) == <<StringField(cls), IntField(cnt)>>
        has(cls) == \E k \in 1..Len(t.records) : t.records[k][1] = StringField(cls)
    IN  /\ t.name = S_asset_class_counts
        /\ t.columnNames = <<S_asset_class, S_count>>
        /\ t.columnTypes = <<FIELD_TYPE_STRING, FIELD_TYPE_INT>>
        /\ Len(t.records) <= 2
        /\ has(S_bond) <=> valid_bond_cnt # 0
        /\ has(S_stock) <=> valid_stock_cnt # 0
        /\ \A k \in 1..Len(t.records) :
             t.records[k] \in {rowOf(S_bond, valid_bond_cnt), rowOf(S_stock, valid_stock_cnt)}
        /\ Len(t.records) = 2 =>
             /\ t.records[1] = rowOf(S_bond, valid_bond_cnt)
             /\ t.records[2] = rowOf(S_stock, valid_stock_cnt)

\* A result with both rows.
C8_Witness ==
  /\ pc = "done"
  /\ valid_bond_cnt # 0
  /\ valid_stock_cnt # 0
  /\ Len(result[1].records) = 2

\* The line the loop is at in the step, a data line.
AtDataLine == i < Len(lines') /\ Len(lines'[i + 1]) > 0 /\ lines'[i + 1][1] # S_TABLE

\* C9: a data line before any <TABLE> marker, or with a field count other
\* than the column count of the current table, ends the load at that line:
\* no table, no index map and not the loop index changes, and no step
\* follows.
C9_BadLineAborts ==
  [][ /\ ( /\ pc = "load"
           /\ AtDataLine
           /\ \/ Len(tables) = 0
              \/ Len(lines'[i + 1]) # Len(tables[Len(tables)].columnNames) )
         => /\ pc' = "aborted"
            /\ UNCHANGED <<tables, table_headers, i>>
            /\ UNCHANGED indexVars
      /\ pc # "aborted" ]_vars

\* The load has ended at a line of the wrong arity that follows a table
\* with a row.
C9_Witness ==
  /\ pc = "aborted"
  /\ Len(tables) > 0
  /\ Len(tables[Len(tables)].records) > 0
  /\ i < Len(lines)
  /\ lines[i + 1][1] # S_TABLE
  /\ Len(lines[i + 1]) # Len(tables[Len(tables)].columnNames)

\* The total of the class of n grows by the number of trade records of n,
\* the other total stays.
CountedOnce(n) ==
  IF name_to_class[n] = S_stock
    THEN /\ valid_stock_cnt' = valid_stock_cnt + Len(name_to_trades[n])
         /\ valid_bond_cnt' = valid_bond_cnt
    ELSE /\ valid_bond_cnt' = valid_bond_cnt + Len(name_to_trades[n])
         /\ valid_stock_cnt' = valid_stock_cnt

\* C10: for an instrument that has passed the class and trades tests and
\* whose price series fails, the price check adds nothing; if it has a
\* volume series, the volume check then adds its number of trade records to
\* its class total if no day from 13 to 268 has a volume below 10.0, and
\* adds nothing if one has.
C10_FailingPricePassingVolume ==
  [][ /\ (pc = "exe_price" /\ HasPrice(CurName) /\ PriceFails(CurName))
         => TotalsUnchanged /\ pc' = "exe_volume"
      /\ ( /\ pc = "exe_volume"
           /\ HasPrice(CurName)
           /\ PriceFails(CurName)
           /\ HasVolume(CurName) )
         => IF VolumeFails(CurName) THEN TotalsUnchanged ELSE CountedOnce(CurName) ]_vars

\* An instrument with a failing price series and a volume of exactly 10.0
\* on day 13 has been counted.
C10_Witness ==
  /\ pc = "exe_loop"
  /\ ite >= 1
  /\ name_to_class[LastName] \in {S_stock, S_bond}
  /\ LastName \in DOMAIN name_to_trades
  /\ HasPrice(LastName)
  /\ PriceFails(LastName)
  /\ HasVolume(LastName)
  /\ name_to_date_volume[LastName] = (13 :> 100)
  /\ valid_flag
  /\ valid_stock_cnt + valid_bond_cnt >= Len(name_to_trades[LastName])
  /\ IF name_to_class[LastName] = S_stock THEN valid_stock_cnt > 0 ELSE valid_bond_cnt > 0

\* ------------------------------------------------------------ C11

\* The program is past the load: in a call of exe() or between two calls.
Querying == pc \in {"loaded", "exe_loop", "exe_price", "exe_volume", "done"}

\* C11: once the load is complete, no step of any exe() call changes the
\* stored tables, the table headers or any of the four index maps, and a
\* call that returns after an earlier call returns a table equal to the one
\* the earlier call returned.
C11_RepeatedExe ==
  [][Querying =>
       /\ tables' = tables
       /\ table_headers' = table_headers
       /\ indexVars' = indexVars
       /\ ((runs >= 1 /\ runs' = runs + 1) => result' = result)]_vars

\* A second call has returned, with a row in its table, over an index that
\* holds an instrument with trades.
C11_Witness ==
  /\ pc = "done"
  /\ runs >= 2
  /\ result[1].records /= <<>>
  /\ DOMAIN name_to_trades /= {}
  /\ tables /= <<>>

====
